---- MODULE Spec2Model ----
(***************************************************************************)
(* Model of the data-transformation core of the FootprintViewer package:   *)
(*   - FootprintVisualizer._arrange_transcript_rows   (visualizer.py)      *)
(*   - FootprintDataProcessor.create_heatmap_data     (data_processor.py)  *)
(*   - the colour ceiling of plot_multi_tissue_comparison and of           *)
(*     plot_region_with_footprints                    (api.py)             *)
(*   - GenBankCreator._parse_gff3_features         (genbank_creator.py)    *)
(*   - FootprintVisualizer.create_transcript_layout_visualization, run on  *)
(*     the features the extractor returns             (visualizer.py)      *)
(*   - the drawing of the transcript rows and heatmap tracks (api.py)      *)
(* Scores are floats in the program; here a number is kept in tenths       *)
(* (3.2 is 32, the cap 5.0 is 50) and a float is a record that is either   *)
(* not-a-number or carries such a value.                                   *)
(***************************************************************************)
EXTENDS Integers, Sequences, FiniteSets

VARIABLES
    pc,                 \* position of the running call
    transcript_ranges,  \* the mapping handed to _arrange_transcript_rows
    transcript_rows,    \* the rows it returns
    fp_columns,         \* the columns of the record set fp_data
    n_rows,             \* the number of rows of fp_data iterated so far
    row,                \* the row of fp_data iterated last
    start,              \* window start (1-based, inclusive)
    end,                \* window end (1-based, inclusive)
    radius_range,       \* (min, max), or None
    heatmap_data,       \* the matrix of create_heatmap_data
    radii,              \* the radii it returns
    before,             \* history: heatmap_data before the last row
    n_tissues,          \* len(fp_files_dict)
    tissue_data,        \* per loaded tissue: heatmap_data, radii, max_score
    all_max_scores,     \* per loaded tissue: max_score
    global_max,         \* the shared colour ceiling, None until computed
    drawn,              \* the plot_heatmap calls made: heatmap_data, vmax
    lines,              \* the lines of the GFF3 file read so far
    line_num,           \* the number of lines the second pass has read
    transcript_map,     \* transcript ID -> transcript name
    features,           \* the features _parse_gff3_features has appended
    api_call,           \* the plotting function that is running
    max_score,          \* the colour ceiling of plot_region_with_footprints
    axes_drawn          \* the drawing calls made, in order: axis, what

packVars == <<transcript_ranges, transcript_rows>>
heatVars == <<fp_columns, n_rows, row, start, end, radius_range,
              heatmap_data, radii, before>>
multiVars == <<n_tissues, tissue_data, all_max_scores, global_max, drawn>>
gffVars == <<lines, line_num, transcript_map, features>>
renderVars == <<api_call, max_score, axes_drawn>>
vars == <<pc, packVars, heatVars, multiVars, gffVars, renderVars>>

----------------------------------------------------------------------------
(* Bounds of the model.                                                    *)

MaxTranscripts == 4
MaxCoord == 3
MaxRecords == 2
MaxWinLen == 2
MaxRadius == 3
MaxTissues == 2

----------------------------------------------------------------------------
(* Helpers.                                                                *)

SetMin(S) == CHOOSE x \in S : \A y \in S : x <= y
SetMax(S) == CHOOSE x \in S : \A y \in S : y <= x

SeqsUpTo(S, n) == UNION {[1..k -> S] : k \in 0..n}

----------------------------------------------------------------------------
(* Floats: a score is not-a-number or a number kept in tenths.             *)

NaN == [nan |-> TRUE, v |-> 0]

Num(x) == [nan |-> FALSE, v |-> x]

\* pd.notna
notna(score) == ~score.nan

None == <<>>

----------------------------------------------------------------------------
(* ScoreMatrixBuilder: FootprintDataProcessor.create_heatmap_data.         *)
(* A record set is a DataFrame: rcols is the set of radii r for which it   *)
(* has a column "r<r>", long tells whether it has the columns radius and   *)
(* score, rows are its rows in order.  A wide row is [pos, r] with r the   *)
(* values of the radius columns, a long row is [pos, radius, score].       *)
(* A matrix is indexed from 0: heatmap_data[radius_idx][pos_idx].          *)

\* FootprintDataProcessor.__init__: default_radius_range=(2, 100)
default_radius_range == <<2, 100>>

\* Mutant: the window end is taken as exclusive.
region_length_exclusive(s, e) == e - s

region_length(s, e) == e - s + 1

\* np.zeros((n_radii, n_pos))
zeros(n_radii, n_pos) ==
    [radius_idx \in 0..(n_radii - 1) |-> [pos_idx \in 0..(n_pos - 1) |-> Num(0)]]

\* Mutant: a not-a-number column value is written like any other.
WriteWideRowNoNaNCheck(h, rec, rcols, s, rr) ==
    LET pos_idx == rec.pos - s
    IN  [radius_idx \in DOMAIN h |-> [p \in DOMAIN h[radius_idx] |->
            IF /\ p = pos_idx
               /\ (radius_idx + rr[1]) \in rcols
            THEN rec.r[radius_idx + rr[1]]
            ELSE h[radius_idx][p]]]

\* One wide rec (data_processor.py 98-111): for every radius of the range
\* whose column exists, the value is written unless it is not-a-number.
\* The radii of the range are exactly the matrix rows, so the check
\* 0 <= radius_idx < len(radii) of line 107 always passes.
WriteWideRow(h, rec, rcols, s, rr) ==
    LET pos_idx == rec.pos - s
    IN  [radius_idx \in DOMAIN h |-> [p \in DOMAIN h[radius_idx] |->
            IF /\ p = pos_idx
               /\ (radius_idx + rr[1]) \in rcols
               /\ notna(rec.r[radius_idx + rr[1]])
            THEN rec.r[radius_idx + rr[1]]
            ELSE h[radius_idx][p]]]

\* Mutant: the lower bounds "0 <=" are not checked, so that an index of
\* -k addresses the k-th cell from the end, as negative indices do.
WriteLongRowNoLowerBound(h, rec, n_radii, n_pos, s, rr) ==
    LET pos_idx == rec.pos - s
        radius_idx == rec.radius - rr[1]
        pw == IF pos_idx < 0 THEN pos_idx + n_pos ELSE pos_idx
        rw == IF radius_idx < 0 THEN radius_idx + n_radii ELSE radius_idx
    IN  IF pw \in 0..(n_pos - 1) /\ rw \in 0..(n_radii - 1)
        THEN [h EXCEPT ![rw][pw] = rec.score]
        ELSE h

\* Mutant: a cell already written is not written again.
WriteLongRowKeepFirst(h, rec, n_radii, n_pos, s, rr) ==
    LET pos_idx == rec.pos - s
        radius_idx == rec.radius - rr[1]
    IN  IF /\ 0 <= pos_idx /\ pos_idx < n_pos
           /\ 0 <= radius_idx /\ radius_idx < n_radii
           /\ h[radius_idx][pos_idx] = Num(0)
        THEN [h EXCEPT ![radius_idx][pos_idx] = rec.score]
        ELSE h

\* One long rec (data_processor.py 114-119): no check of the score.
WriteLongRow(h, rec, n_radii, n_pos, s, rr) ==
    LET pos_idx == rec.pos - s
        radius_idx == rec.radius - rr[1]
    IN  IF /\ 0 <= pos_idx /\ pos_idx < n_pos
           /\ 0 <= radius_idx /\ radius_idx < n_radii
        THEN [h EXCEPT ![radius_idx][pos_idx] = rec.score]
        ELSE h

\* The result is [raised, heatmap_data, radii]; the positions returned
\* are start..end.  np.zeros raises ValueError on a negative dimension, and
\* a row without the column radius raises KeyError in the long branch.
create_heatmap_data(data, s, e, rrange) ==
    LET rr == IF rrange = None THEN default_radius_range ELSE rrange
        n_pos == region_length(s, e)
        the_radii == rr[1]..rr[2]
        n_radii == Cardinality(the_radii)
        rows == data.rows
        wide[n \in 0..Len(rows)] ==
            IF n = 0 THEN zeros(n_radii, n_pos)
            ELSE WriteWideRow(wide[n - 1], rows[n], data.rcols, s, rr)
        long[n \in 0..Len(rows)] ==
            IF n = 0 THEN zeros(n_radii, n_pos)
            ELSE WriteLongRow(long[n - 1], rows[n], n_radii, n_pos, s, rr)
    IN  IF n_pos < 0
        THEN [raised |-> TRUE, heatmap_data |-> <<>>, radii |-> {}]
        ELSE IF 2 \in data.rcols
        THEN [raised |-> FALSE, heatmap_data |-> wide[Len(rows)], radii |-> the_radii]
        ELSE IF rows # <<>> /\ ~data.long
        THEN [raised |-> TRUE, heatmap_data |-> <<>>, radii |-> {}]
        ELSE [raised |-> FALSE, heatmap_data |-> long[Len(rows)], radii |-> the_radii]

\* plot_region_with_footprints, the branch taken for an empty record set
\* (api.py 52-55): np.zeros((99, end - start + 1)), np.arange(2, 101).
empty_track(s, e) ==
    [raised |-> FALSE, heatmap_data |-> zeros(99, e - s + 1), radii |-> 2..100]

HeatIdle ==
    /\ fp_columns = [rcols |-> {}, long |-> TRUE]
    /\ n_rows = 0
    /\ row = None
    /\ start = 1
    /\ end = 1
    /\ radius_range = None
    /\ heatmap_data = <<>>
    /\ radii = {}
    /\ before = <<>>

PackIdle ==
    /\ transcript_ranges = <<>>
    /\ transcript_rows = <<>>

MultiIdle ==
    /\ n_tissues = 0
    /\ tissue_data = <<>>
    /\ all_max_scores = <<>>
    /\ global_max = None
    /\ drawn = <<>>

GffIdle ==
    /\ lines = <<>>
    /\ line_num = 0
    /\ transcript_map = <<>>
    /\ features = <<>>

RenderIdle ==
    /\ api_call = ""
    /\ max_score = None
    /\ axes_drawn = <<>>

\* The inputs of the matrix builder.
Scores == {NaN, Num(17), Num(32)}

RadiusRanges == {rr \in (2..3) \X (2..MaxRadius) : rr[1] <= rr[2]}

\* The windows: start <= end, end = start - 1 and end = start - 2.
Windows == {<<5, e>> : e \in 3..(5 + MaxWinLen - 1)}

\* The radii the records are drawn from: one below the range to one above
\* it (for the default range, the radii at and next to its two ends).
RecordRadii(rrange) ==
    IF rrange = None
    THEN {default_radius_range[1] - 1, default_radius_range[1],
          default_radius_range[2], default_radius_range[2] + 1}
    ELSE (rrange[1] - 1)..(rrange[2] + 1)

LongRows(s, e, rrange) ==
    [pos : (s - 1)..(e + 1), radius : RecordRadii(rrange), score : Scores]

\* The radius columns of a wide record set: r2 and at most one other.
WideColumns(rrange) == {{2, c} : c \in RecordRadii(rrange) \ {1}}

\* The radius columns of a wide record set that starts above r2.
WideColumnsAboveR2(rrange) == {{c} : c \in RecordRadii(rrange) \ {1, 2}}

WideRows(s, e, rcols) == [pos : (s - 1)..(e + 1), r : [rcols -> Scores]]

\* create_heatmap_data up to the loops (data_processor.py 85-93); np.zeros
\* raises ValueError on a negative dimension.
HeatBegin ==
    /\ pc = "heat_call"
    /\ LET rr == IF radius_range = None THEN default_radius_range ELSE radius_range
       IN  IF region_length(start, end) < 0
           THEN /\ pc' = "heat_raised"
                /\ UNCHANGED <<radii, heatmap_data, before>>
           ELSE /\ radii' = rr[1]..rr[2]
                /\ heatmap_data' = zeros(Cardinality(rr[1]..rr[2]), region_length(start, end))
                /\ before' = heatmap_data'
                /\ pc' = "heat_loop"
    /\ UNCHANGED <<fp_columns, n_rows, row, start, end, radius_range, packVars, multiVars, gffVars, renderVars>>

\* One iteration of the loop over a wide record set (98-111).  The rows of
\* fp_data are drawn as the loop reaches them.
HeatWideRow ==
    /\ pc = "heat_loop"
    /\ 2 \in fp_columns.rcols
    /\ n_rows < MaxRecords
    /\ \E r \in WideRows(start, end, fp_columns.rcols) :
          /\ row' = r
          /\ heatmap_data' =
                WriteWideRow(heatmap_data, r, fp_columns.rcols, start,
                             IF radius_range = None THEN default_radius_range
                             ELSE radius_range)
    /\ before' = heatmap_data
    /\ n_rows' = n_rows + 1
    /\ UNCHANGED <<pc, fp_columns, start, end, radius_range, radii, packVars, multiVars, gffVars, renderVars>>

\* One iteration of the loop of the long branch (112-119), taken by every
\* record set without a column r2; row['radius'] raises KeyError when the
\* record set has no such column.
HeatLongRow ==
    /\ pc = "heat_loop"
    /\ 2 \notin fp_columns.rcols
    /\ n_rows < MaxRecords
    /\ IF fp_columns.long
       THEN /\ \E r \in LongRows(start, end, radius_range) :
                  /\ row' = r
                  /\ heatmap_data' =
                        WriteLongRow(heatmap_data, r, Cardinality(radii),
                                     region_length(start, end), start,
                                     IF radius_range = None THEN default_radius_range
                                     ELSE radius_range)
            /\ pc' = pc
       ELSE /\ \E r \in WideRows(start, end, fp_columns.rcols) : row' = r
            /\ heatmap_data' = heatmap_data
            /\ pc' = "heat_raised"
    /\ before' = heatmap_data
    /\ n_rows' = n_rows + 1
    /\ UNCHANGED <<fp_columns, start, end, radius_range, radii, packVars, multiVars, gffVars, renderVars>>

\* The record set is exhausted: return (121).
HeatReturn ==
    /\ pc = "heat_loop"
    /\ pc' = "heat_done"
    /\ UNCHANGED <<packVars, heatVars, multiVars, gffVars, renderVars>>

\* The caller's branch for an empty record set, taken instead of the call
\* (api.py 52-56, 282-286).
SubstituteEmptyTrack ==
    /\ pc = "heat_call"
    /\ radius_range = None
    /\ IF end - start + 1 < 0
       THEN /\ pc' = "heat_raised"
            /\ UNCHANGED <<radii, heatmap_data, before>>
       ELSE LET res == empty_track(start, end)
            IN  /\ heatmap_data' = res.heatmap_data
                /\ radii' = res.radii
                /\ before' = heatmap_data'
                /\ pc' = "heat_substituted"
    /\ UNCHANGED <<fp_columns, n_rows, row, start, end, radius_range, packVars, multiVars, gffVars, renderVars>>

InitHeat ==
    /\ pc = "heat_call"
    /\ \E w \in Windows : start = w[1] /\ end = w[2]
    /\ \/ radius_range \in RadiusRanges
       \/ radius_range = None
    /\ fp_columns \in {[rcols |-> {}, long |-> TRUE]} \cup
                      {[rcols |-> c, long |-> FALSE] :
                          c \in WideColumns(radius_range) \cup WideColumnsAboveR2(radius_range)}
    /\ n_rows = 0
    /\ row = None
    /\ heatmap_data = <<>>
    /\ radii = {}
    /\ before = <<>>
    /\ PackIdle
    /\ MultiIdle
    /\ GffIdle
    /\ RenderIdle

NextHeat ==
    \/ HeatBegin
    \/ HeatWideRow
    \/ HeatLongRow
    \/ HeatReturn
    \/ SubstituteEmptyTrack

SpecHeat == InitHeat /\ [][NextHeat]_vars

----------------------------------------------------------------------------
(* Claims about the matrix builder, checked under SpecHeat.  They are      *)
(* stated for the row iterated last: before is the matrix the rows ahead   *)
(* of it left, heatmap_data the matrix after it; after the last row        *)
(* heatmap_data is the matrix returned.                                    *)

\* The radius range in force, the default being (2, 100).
RangeInForce == IF radius_range = None THEN <<2, 100>> ELSE radius_range

RowIterated == pc \in {"heat_loop", "heat_done"} /\ n_rows > 0

WideForm == 2 \in fp_columns.rcols

\* The cells <<radius index, position index>> of the requested shape
\* (max - min + 1, end - start + 1).
Cells == (0..(RangeInForce[2] - RangeInForce[1])) \X (0..(end - start))

\* The row iterated last carries a value for cell c: its position is
\* start + c[2] and it has radius min + c[1] (as a column, in wide form).
Addresses(c) ==
    /\ row.pos - start = c[2]
    /\ IF WideForm
       THEN (c[1] + RangeInForce[1]) \in fp_columns.rcols
       ELSE row.radius - RangeInForce[1] = c[1]

RowScore(c) ==
    IF WideForm THEN row.r[c[1] + RangeInForce[1]] ELSE row.score

HasShape(m) ==
    /\ DOMAIN m = 0..(RangeInForce[2] - RangeInForce[1])
    /\ \A radius_idx \in DOMAIN m : DOMAIN m[radius_idx] = 0..(end - start)

AllZero(m) ==
    \A radius_idx \in DOMAIN m : \A pos_idx \in DOMAIN m[radius_idx] :
        m[radius_idx][pos_idx] = Num(0)

\* C5: a record in the window and in the radius range with a numeric score
\* is stored at [radius - radius_min, pos - start], and a cell that no such
\* record addresses keeps its value, which is 0 from the start.
C5_NumericRecordsStored ==
    /\ (pc = "heat_loop" /\ n_rows = 0) => (HasShape(heatmap_data) /\ AllZero(heatmap_data))
    /\ RowIterated =>
          /\ HasShape(heatmap_data)
          /\ \A c \in Cells :
                IF Addresses(c) /\ ~RowScore(c).nan
                THEN heatmap_data[c[1]][c[2]] = RowScore(c)
                ELSE heatmap_data[c[1]][c[2]] = before[c[1]][c[2]]

\* What remains of C5 when the rows that are long and not-a-number are
\* left aside.
C5_ExceptLongNaN ==
    /\ (pc = "heat_loop" /\ n_rows = 0) => (HasShape(heatmap_data) /\ AllZero(heatmap_data))
    /\ (RowIterated /\ (WideForm \/ ~row.score.nan)) =>
          /\ HasShape(heatmap_data)
          /\ \A c \in Cells :
                IF Addresses(c) /\ ~RowScore(c).nan
                THEN heatmap_data[c[1]][c[2]] = RowScore(c)
                ELSE heatmap_data[c[1]][c[2]] = before[c[1]][c[2]]

\* C6, as stated: a record addressing a cell that an earlier record wrote
\* leaves its own score in the cell.
C6_LastRecordWins ==
    RowIterated =>
        \A c \in Cells :
            (Addresses(c) /\ before[c[1]][c[2]] # Num(0)) =>
                heatmap_data[c[1]][c[2]] = RowScore(c)

\* C6, amended: a record addressing a cell that an earlier record wrote
\* leaves its own score in the cell when that score is a number, without
\* accumulation, in both forms; a wide record whose value is not-a-number
\* leaves the earlier value.
C6_LastNumericRecordWins ==
    RowIterated =>
        \A c \in Cells :
            (Addresses(c) /\ before[c[1]][c[2]] # Num(0)) =>
                /\ ~RowScore(c).nan => heatmap_data[c[1]][c[2]] = RowScore(c)
                /\ (WideForm /\ RowScore(c).nan) =>
                       heatmap_data[c[1]][c[2]] = before[c[1]][c[2]]

\* A second record for a cell, with another numeric score, has replaced
\* the score of the first.
C6_Witness ==
    /\ RowIterated
    /\ pc = "heat_done"
    /\ \E c \in Cells :
          /\ Addresses(c)
          /\ before[c[1]][c[2]] = Num(17)
          /\ RowScore(c) = Num(32)
          /\ heatmap_data[c[1]][c[2]] = Num(32)

\* C7: with no record, the matrix returned has the shape
\* (max - min + 1, end - start + 1) and holds only zeros; the matrix the
\* plotting functions substitute for an empty track has the shape of the
\* default range (2, 100), 99 rows by end - start + 1 columns of zeros.
C7_EmptyShape ==
    /\ (pc = "heat_done" /\ n_rows = 0) =>
          /\ HasShape(heatmap_data)
          /\ Cardinality(DOMAIN heatmap_data) = RangeInForce[2] - RangeInForce[1] + 1
          /\ \A radius_idx \in DOMAIN heatmap_data :
                Cardinality(DOMAIN heatmap_data[radius_idx]) = end - start + 1
          /\ AllZero(heatmap_data)
    /\ pc = "heat_substituted" =>
          /\ DOMAIN heatmap_data = 0..(100 - 2)
          /\ \A radius_idx \in DOMAIN heatmap_data :
                DOMAIN heatmap_data[radius_idx] = 0..(end - start)
          /\ AllZero(heatmap_data)

\* No record, a window of several positions and a range of several radii.
C7_Witness ==
    /\ pc = "heat_done"
    /\ n_rows = 0
    /\ end > start
    /\ radius_range # None
    /\ radius_range[2] > radius_range[1]
    /\ Cardinality(DOMAIN heatmap_data) = radius_range[2] - radius_range[1] + 1

\* C8: no cell is ever not-a-number, and a record whose score is
\* not-a-number leaves the cell it addresses as it was.
C8_NaNNeverPropagated ==
    RowIterated =>
        \A c \in Cells :
            /\ ~heatmap_data[c[1]][c[2]].nan
            /\ (Addresses(c) /\ RowScore(c).nan) =>
                   heatmap_data[c[1]][c[2]] = before[c[1]][c[2]]

\* The same for wide records alone.
C8_WideNaNSkipped ==
    (RowIterated /\ WideForm) =>
        \A c \in Cells :
            /\ ~heatmap_data[c[1]][c[2]].nan
            /\ (Addresses(c) /\ RowScore(c).nan) =>
                   heatmap_data[c[1]][c[2]] = before[c[1]][c[2]]

\* The row iterated last has its position outside the window or (long
\* form) its radius outside the range.
RowOutOfRange ==
    \/ row.pos - start < 0
    \/ row.pos - start >= end - start + 1
    \/ /\ ~WideForm
       /\ \/ row.radius - RangeInForce[1] < 0
          \/ row.radius - RangeInForce[1] >= RangeInForce[2] - RangeInForce[1] + 1

\* C9: a record whose position index or radius index is out of range
\* leaves every cell unchanged, and no record changes a cell other than
\* the ones it addresses; the shape stays.
C9_OutOfRangeDropped ==
    RowIterated =>
        /\ HasShape(heatmap_data)
        /\ RowOutOfRange => heatmap_data = before
        /\ \A c \in Cells :
              ~Addresses(c) => heatmap_data[c[1]][c[2]] = before[c[1]][c[2]]

\* A long record one position below the window, with a radius of the range
\* and a numeric score, dropped from a matrix that holds a score.
C9_Witness ==
    /\ RowIterated
    /\ ~WideForm
    /\ row.pos = start - 1
    /\ row.radius = RangeInForce[1]
    /\ ~row.score.nan
    /\ \E c \in Cells : before[c[1]][c[2]] # Num(0)
    /\ heatmap_data = before

\* The builder's half of C14: create_heatmap_data returns no matrix for a
\* window with start > end.
C14_BuilderSignalsInvalidWindow ==
    start > end => pc \notin {"heat_loop", "heat_done"}

\* C15: for a window with start <= end, create_heatmap_data never raises,
\* whatever the form, the columns and the values of the record set.
C15_BuilderTotal ==
    start <= end => pc # "heat_raised"

\* What holds of C15: with start <= end, the record sets that have a
\* column r2 or the columns radius and score never make the builder raise.
C15_TotalOnMarkedForms ==
    (start <= end /\ (WideForm \/ fp_columns.long)) => pc # "heat_raised"

----------------------------------------------------------------------------
(* Colour-scale reconciliation: plot_multi_tissue_comparison, from the     *)
(* loading of the tissues on (api.py 270-306).  The record set of a tissue *)
(* is read from its file when the first loop reaches it.                   *)

\* The cap 5.0 and the default ceiling 1.0, in tenths.
ScoreCap == 50
DefaultCeiling == 10

Min2(a, b) == IF a <= b THEN a ELSE b

\* np.max of a matrix: not-a-number as soon as one cell is.
np_max(m) ==
    LET cells == {m[radius_idx][pos_idx] :
                     radius_idx \in DOMAIN m, pos_idx \in DOMAIN m[0]}
    IN  IF \E x \in cells : x.nan THEN NaN
        ELSE Num(SetMax({x.v : x \in cells}))

\* Mutant: a tissue without a positive score gets the ceiling 1.0 of the
\* single-tissue plot.
tissue_max_score_default_one(m) ==
    LET raw_max == IF ~np_max(m).nan /\ np_max(m).v > 0 THEN np_max(m).v
                   ELSE DefaultCeiling
    IN  Min2(raw_max, ScoreCap)

\* api.py 290-291: raw_max = np.max(h) if np.max(h) > 0 else 0;
\* max_score = min(raw_max, 5.0).  A comparison with not-a-number is false.
tissue_max_score(m) ==
    LET raw_max == IF ~np_max(m).nan /\ np_max(m).v > 0 THEN np_max(m).v ELSE 0
    IN  Min2(raw_max, ScoreCap)

\* Mutant: the ceiling of the last tissue is used.
compute_global_max_last(scores) ==
    IF scores # <<>> /\ scores[Len(scores)] > 0
    THEN Min2(scores[Len(scores)], ScoreCap)
    ELSE Min2(DefaultCeiling, ScoreCap)

\* api.py 298-299.
compute_global_max(scores) ==
    LET raw_global_max ==
            IF scores # <<>> /\ SetMax({scores[i] : i \in 1..Len(scores)}) > 0
            THEN SetMax({scores[i] : i \in 1..Len(scores)})
            ELSE DefaultCeiling
    IN  Min2(raw_global_max, ScoreCap)

\* The record sets a tissue file can hold for the window: long records at
\* the window start, at the two ends of the default radius range.
TissueScores == {NaN, Num(32), Num(70)}

TissueRows(s) == [pos : {s}, radius : {2, 100}, score : TissueScores]

TissueFrames(s) ==
    {[rcols |-> {}, long |-> TRUE, rows |-> rows] :
        rows \in SeqsUpTo(TissueRows(s), MaxRecords)}

\* One iteration of the first loop (276-295).
LoadTissue ==
    /\ pc = "multi_load"
    /\ Len(tissue_data) < n_tissues
    /\ \E fp_data \in TissueFrames(start) :
          LET loaded ==
                  IF fp_data.rows = <<>>
                  THEN [heatmap_data |-> zeros(99, region_length(start, end)),
                        radii |-> 2..100,
                        max_score |-> 0]
                  ELSE LET res == create_heatmap_data(fp_data, start, end, None)
                       IN  [heatmap_data |-> res.heatmap_data,
                            radii |-> res.radii,
                            max_score |-> tissue_max_score(res.heatmap_data)]
          IN  /\ tissue_data' = Append(tissue_data, loaded)
              /\ all_max_scores' = Append(all_max_scores, loaded.max_score)
    /\ UNCHANGED <<pc, n_tissues, global_max, drawn, packVars, heatVars, gffVars, renderVars>>

\* After the first loop (298-299).
ComputeGlobalMax ==
    /\ pc = "multi_load"
    /\ Len(tissue_data) = n_tissues
    /\ global_max' = compute_global_max(all_max_scores)
    /\ pc' = "multi_draw"
    /\ UNCHANGED <<n_tissues, tissue_data, all_max_scores, drawn, packVars, heatVars, gffVars, renderVars>>

\* One iteration of the second loop (304-306): plot_heatmap with
\* vmax = global_max.
DrawTissue ==
    /\ pc = "multi_draw"
    /\ Len(drawn) < n_tissues
    /\ drawn' = Append(drawn,
                       [heatmap_data |-> tissue_data[Len(drawn) + 1].heatmap_data,
                        vmax |-> global_max])
    /\ UNCHANGED <<pc, n_tissues, tissue_data, all_max_scores, global_max,
                   packVars, heatVars, gffVars, renderVars>>

MultiReturn ==
    /\ pc = "multi_draw"
    /\ Len(drawn) = n_tissues
    /\ pc' = "multi_done"
    /\ UNCHANGED <<packVars, heatVars, multiVars, gffVars, renderVars>>

InitMulti ==
    /\ pc = "multi_load"
    /\ n_tissues \in 0..MaxTissues
    /\ tissue_data = <<>>
    /\ all_max_scores = <<>>
    /\ global_max = None
    /\ drawn = <<>>
    /\ fp_columns = [rcols |-> {}, long |-> TRUE]
    /\ n_rows = 0
    /\ row = None
    /\ start = 5
    /\ end = 6
    /\ radius_range = None
    /\ heatmap_data = <<>>
    /\ radii = {}
    /\ before = <<>>
    /\ PackIdle
    /\ GffIdle
    /\ RenderIdle

NextMulti ==
    \/ LoadTissue
    \/ ComputeGlobalMax
    \/ DrawTissue
    \/ MultiReturn

SpecMulti == InitMulti /\ [][NextMulti]_vars

----------------------------------------------------------------------------
(* Claim about the colour ceiling, checked under SpecMulti.                *)

\* max(matrix) if positive else 0, capped at 5.0 (50 tenths); a matrix with
\* a not-a-number cell has no positive maximum.
ClaimedTrackMax(m) ==
    LET vals == {m[c[1]][c[2]].v : c \in (DOMAIN m) \X (DOMAIN m[0])}
        top == CHOOSE x \in vals : \A y \in vals : y <= x
        anyNaN == \E c \in (DOMAIN m) \X (DOMAIN m[0]) : m[c[1]][c[2]].nan
        positive == IF ~anyNaN /\ top > 0 THEN top ELSE 0
    IN  IF positive <= 50 THEN positive ELSE 50

ClaimedCeiling ==
    LET maxima == {ClaimedTrackMax(tissue_data[i].heatmap_data) :
                      i \in 1..Len(tissue_data)}
        top == CHOOSE x \in maxima : \A y \in maxima : y <= x
    IN  IF maxima # {} /\ top > 0
        THEN (IF top <= 50 THEN top ELSE 50)
        ELSE 10

\* C10: each per-track maximum is min(max(matrix) if positive else 0, 5.0);
\* the global ceiling is min(largest per-track maximum, 5.0) when a track
\* has a positive maximum and 1.0 otherwise; it exists only once all tracks
\* are loaded, and every heatmap is drawn with it.
C10_SharedCeiling ==
    /\ \A i \in 1..Len(tissue_data) :
          /\ all_max_scores[i] = ClaimedTrackMax(tissue_data[i].heatmap_data)
          /\ tissue_data[i].max_score = all_max_scores[i]
    /\ Len(all_max_scores) = Len(tissue_data)
    /\ pc = "multi_load" => (global_max = None /\ drawn = <<>>)
    /\ pc \in {"multi_draw", "multi_done"} =>
          /\ Len(tissue_data) = n_tissues
          /\ global_max = ClaimedCeiling
          /\ \A j \in 1..Len(drawn) :
                /\ drawn[j].vmax = global_max
                /\ drawn[j].heatmap_data = tissue_data[j].heatmap_data
    /\ pc = "multi_done" => Len(drawn) = n_tissues

\* Two tracks with the maxima 0 and 3.2, both drawn with the ceiling 3.2.
C10_Witness ==
    /\ pc = "multi_done"
    /\ all_max_scores = <<0, 32>>
    /\ global_max = 32
    /\ Len(drawn) = 2
    /\ drawn[1].vmax = 32
    /\ drawn[2].vmax = 32

\* Two tracks with the maxima 0 and 0, drawn with the ceiling 1.0.
C10_WitnessAllZero ==
    /\ pc = "multi_done"
    /\ all_max_scores = <<0, 0>>
    /\ global_max = 10
    /\ Len(drawn) = 2

----------------------------------------------------------------------------
(* The colour ceiling of the single-track plot:                            *)
(* plot_region_with_footprints (api.py 50-62, 141).                        *)

\* Mutant: a matrix without a positive score gets the per-track default 0
\* of the multi-tissue plot.
single_track_max_score_default_zero(m) ==
    LET raw_max == IF ~np_max(m).nan /\ np_max(m).v > 0 THEN np_max(m).v ELSE 0
    IN  Min2(raw_max, ScoreCap)

\* api.py 60-61: raw_max = np.max(h) if np.max(h) > 0 else 1.0;
\* max_score = min(raw_max, 5.0).
single_track_max_score(m) ==
    LET raw_max == IF ~np_max(m).nan /\ np_max(m).v > 0 THEN np_max(m).v
                   ELSE DefaultCeiling
    IN  Min2(raw_max, ScoreCap)

\* The record sets the score file can hold for the window: long records
\* in the window, at the two ends of the default radius range, with a
\* score that is not-a-number, negative, positive or above 5.0.
CeilingScores == {NaN, Num(-4), Num(32), Num(70)}

SingleTrackRows(s, e) == [pos : s..e, radius : {2, 100}, score : CeilingScores]

SingleTrackFrames(s, e) ==
    {[rcols |-> {}, long |-> TRUE, rows |-> rows] :
        rows \in SeqsUpTo(SingleTrackRows(s, e), MaxRecords)}

\* api.py 50-62: the record set is loaded and the matrix and its ceiling
\* are computed; n_rows is len(fp_data).
LoadSingleTrack ==
    /\ pc = "single_load"
    /\ \E fp_data \in SingleTrackFrames(start, end) :
          /\ n_rows' = Len(fp_data.rows)
          /\ IF fp_data.rows = <<>>
             THEN /\ heatmap_data' = zeros(99, end - start + 1)
                  /\ radii' = 2..100
                  /\ max_score' = DefaultCeiling
             ELSE LET res == create_heatmap_data(fp_data, start, end, None)
                  IN  /\ heatmap_data' = res.heatmap_data
                      /\ radii' = res.radii
                      /\ max_score' = single_track_max_score(res.heatmap_data)
    /\ pc' = "single_loaded"
    /\ UNCHANGED <<fp_columns, row, start, end, radius_range, before, api_call,
                   axes_drawn, packVars, multiVars, gffVars>>

\* api.py 141: plot_heatmap with vmax = max_score.
DrawSingleTrack ==
    /\ pc = "single_loaded"
    /\ drawn' = Append(drawn, [heatmap_data |-> heatmap_data, vmax |-> max_score])
    /\ pc' = "single_done"
    /\ UNCHANGED <<n_tissues, tissue_data, all_max_scores, global_max,
                   packVars, heatVars, gffVars, renderVars>>

InitSingle ==
    /\ pc = "single_load"
    /\ api_call = "plot_region_with_footprints"
    /\ max_score = None
    /\ axes_drawn = <<>>
    /\ fp_columns = [rcols |-> {}, long |-> TRUE]
    /\ n_rows = 0
    /\ row = None
    /\ start = 5
    /\ end = 6
    /\ radius_range = None
    /\ heatmap_data = <<>>
    /\ radii = {}
    /\ before = <<>>
    /\ PackIdle
    /\ MultiIdle
    /\ GffIdle

NextSingle ==
    \/ LoadSingleTrack
    \/ DrawSingleTrack

SpecSingle == InitSingle /\ [][NextSingle]_vars

\* The ceiling the multi-tissue plot computes when the track of the
\* single-track plot is its only track (api.py 282-299).
MultiCeilingOfThisTrack ==
    compute_global_max(<<IF n_rows = 0 THEN 0 ELSE tissue_max_score(heatmap_data)>>)

\* C22: the ceiling of the single-track plot is above 0 and at most 5.0;
\* it is 1.0 when the matrix has no positive maximum and min(max, 5.0)
\* otherwise; it equals the global ceiling the multi-track path computes
\* over this track alone; and the heatmap is drawn with it.
C22_CeilingInRangeAndSame ==
    pc \in {"single_loaded", "single_done"} =>
        /\ max_score > 0
        /\ max_score <= 50
        /\ max_score = (IF ClaimedTrackMax(heatmap_data) > 0
                        THEN ClaimedTrackMax(heatmap_data) ELSE 10)
        /\ max_score = MultiCeilingOfThisTrack
        /\ \A j \in 1..Len(drawn) : drawn[j].vmax = max_score

\* A record set with negative scores only: the single-track default 1.0
\* is used, and the multi-track path, whose per-track default is 0, ends
\* at the same ceiling.
C22_Witness ==
    /\ pc = "single_done"
    /\ n_rows > 0
    /\ \E pos_idx \in DOMAIN heatmap_data[0] : heatmap_data[0][pos_idx] = Num(-4)
    /\ tissue_max_score(heatmap_data) = 0
    /\ max_score = 10
    /\ drawn[1].vmax = 10

\* A score above 5.0: the ceiling is the cap.
C22_WitnessCapped ==
    /\ pc = "single_done"
    /\ \E pos_idx \in DOMAIN heatmap_data[0] : heatmap_data[0][pos_idx] = Num(70)
    /\ max_score = 50

\* The multi-track half of C22: the global ceiling, once computed, is
\* above 0 and at most 5.0.
C22_MultiCeilingInRange ==
    pc \in {"multi_draw", "multi_done"} => (global_max > 0 /\ global_max <= 50)

----------------------------------------------------------------------------
(* TranscriptRowPacker: FootprintVisualizer._arrange_transcript_rows.      *)
(* The mapping is an insertion-ordered dict; it is modelled as the         *)
(* sequence of its values in insertion order, and the name of a transcript *)
(* is its position in that order.                                          *)

Spans == {[start |-> s, end |-> e] : s \in 1..MaxCoord, e \in 1..MaxCoord}

OrderedSpans == {sp \in Spans : sp.start <= sp.end}

\* Mutant: half-open test, spans touching in one coordinate do not overlap.
transcripts_overlap_strict(t1_range, t2_range) ==
    ~(t1_range.end <= t2_range.start \/ t2_range.end <= t1_range.start)

\* Mutant: spans one apart count as overlapping.
transcripts_overlap_padded(t1_range, t2_range) ==
    ~(t1_range.end + 1 < t2_range.start \/ t2_range.end + 1 < t1_range.start)

transcripts_overlap(t1_range, t2_range) ==
    ~(t1_range.end < t2_range.start \/ t2_range.end < t1_range.start)

\* Inner loop over the occupants of one row (visualizer.py 207-211).
RowOverlaps(occupants, transcript_name, ranges) ==
    \E k \in 1..Len(occupants) :
        transcripts_overlap(ranges[transcript_name], ranges[occupants[k]])

\* Mutant: the loop over the rows has no break after a placement.
PlaceTranscriptNoBreak(rows, transcript_name, ranges) ==
    LET free == {i \in 1..Len(rows) : ~RowOverlaps(rows[i], transcript_name, ranges)}
    IN  IF free = {}
        THEN Append(rows, <<transcript_name>>)
        ELSE [i \in 1..Len(rows) |->
                IF i \in free THEN Append(rows[i], transcript_name) ELSE rows[i]]

\* Mutant: the last row without an overlapping occupant takes the
\* transcript.
PlaceTranscriptLastFit(rows, transcript_name, ranges) ==
    LET free == {i \in 1..Len(rows) : ~RowOverlaps(rows[i], transcript_name, ranges)}
    IN  IF free = {}
        THEN Append(rows, <<transcript_name>>)
        ELSE [rows EXCEPT ![SetMax(free)] = Append(@, transcript_name)]

\* Mutant: every transcript opens a row of its own.
PlaceTranscriptAlwaysNewRow(rows, transcript_name, ranges) ==
    Append(rows, <<transcript_name>>)

\* One iteration of the outer loop (visualizer.py 200-220): the first row
\* without an overlapping occupant takes the transcript, else a new row.
PlaceTranscript(rows, transcript_name, ranges) ==
    LET free == {i \in 1..Len(rows) : ~RowOverlaps(rows[i], transcript_name, ranges)}
    IN  IF free = {}
        THEN Append(rows, <<transcript_name>>)
        ELSE [rows EXCEPT ![SetMin(free)] = Append(@, transcript_name)]

\* Stable insertion sort of the names by span start.
RECURSIVE SortedByStart(_, _)
SortedByStart(ranges, n) ==
    IF n = 0 THEN <<>>
    ELSE LET prev == SortedByStart(ranges, n - 1)
             ahead == {k \in 1..Len(prev) : ranges[prev[k]].start <= ranges[n].start}
             at == Cardinality(ahead)
         IN  [k \in 1..n |-> IF k <= at THEN prev[k]
                             ELSE IF k = at + 1 THEN n
                             ELSE prev[k - 1]]

\* Mutant: the names are sorted by span start before packing.
transcript_names_sorted(ranges) == SortedByStart(ranges, Len(ranges))

\* list(transcript_ranges.keys()): the names in insertion order.
transcript_names(ranges) == [k \in 1..Len(ranges) |-> k]

RECURSIVE ArrangeLoop(_, _, _)
ArrangeLoop(names, n, ranges) ==
    IF n = 0 THEN <<>>
    ELSE PlaceTranscript(ArrangeLoop(names, n - 1, ranges), names[n], ranges)

_arrange_transcript_rows(ranges) ==
    ArrangeLoop(transcript_names(ranges), Len(ranges), ranges)

ArrangeTranscriptRows ==
    /\ pc = "pack_call"
    /\ transcript_rows' = _arrange_transcript_rows(transcript_ranges)
    /\ pc' = "pack_done"
    /\ UNCHANGED <<transcript_ranges, heatVars, multiVars, gffVars, renderVars>>

InitPack ==
    /\ pc = "pack_call"
    /\ transcript_ranges \in SeqsUpTo(OrderedSpans, MaxTranscripts)
    /\ transcript_rows = <<>>
    /\ HeatIdle
    /\ MultiIdle
    /\ GffIdle
    /\ RenderIdle

NextPack == ArrangeTranscriptRows

SpecPack == InitPack /\ [][NextPack]_vars

----------------------------------------------------------------------------
(* Claims about the packer, checked under SpecPack.                        *)

PackDone == pc = "pack_done"

NumTranscripts == Len(transcript_ranges)

\* Closed-interval non-overlap of the spans of two names, as the claims
\* state it.
Disjoint(a, b) ==
    \/ transcript_ranges[a].end < transcript_ranges[b].start
    \/ transcript_ranges[b].end < transcript_ranges[a].start

PairwiseDisjoint ==
    \A a \in 1..NumTranscripts : \A b \in 1..NumTranscripts :
        a # b => Disjoint(a, b)

\* The places <<row, column>> of the returned rows.
Places ==
    UNION {{<<i, j>> : j \in 1..Len(transcript_rows[i])} :
              i \in 1..Len(transcript_rows)}

\* C1: two distinct transcripts placed in the same row never overlap: for
\* any two of them a.end < b.start or b.end < a.start.
C1_NoOverlapInRow ==
    PackDone =>
        \A i \in 1..Len(transcript_rows) :
            \A j \in 1..Len(transcript_rows[i]) :
                \A k \in 1..Len(transcript_rows[i]) :
                    j # k => Disjoint(transcript_rows[i][j], transcript_rows[i][k])

\* A packing where overlapping transcripts had to be separated and a row
\* is shared by two transcripts.
C1_Witness ==
    /\ PackDone
    /\ ~PairwiseDisjoint
    /\ \E i \in 1..Len(transcript_rows) : Len(transcript_rows[i]) >= 2

\* C2: when all spans of a non-empty mapping are pairwise non-overlapping,
\* the result is exactly one row holding all transcripts, whatever the
\* insertion order.
C2_DisjointSingleRow ==
    (PackDone /\ NumTranscripts > 0 /\ PairwiseDisjoint) =>
        /\ Len(transcript_rows) = 1
        /\ Len(transcript_rows[1]) = NumTranscripts
        /\ {transcript_rows[1][k] : k \in 1..NumTranscripts} = 1..NumTranscripts

\* Three pairwise disjoint spans inserted in an order that is not the
\* order of their coordinates, packed into one row.
C2_Witness ==
    /\ PackDone
    /\ NumTranscripts >= 3
    /\ PairwiseDisjoint
    /\ transcript_ranges[2].end < transcript_ranges[1].start
    /\ Len(transcript_rows) = 1

\* C3: the packer follows the insertion order of the mapping and does not
\* sort: the transcript inserted first heads the first row wherever its
\* span lies, and the rows are opened in insertion order of their heads.
C3_InsertionOrderDecides ==
    PackDone =>
        /\ NumTranscripts > 0 =>
              (Len(transcript_rows) > 0 /\ transcript_rows[1][1] = 1)
        /\ \A i \in 1..Len(transcript_rows) : \A j \in 1..Len(transcript_rows) :
              i < j => transcript_rows[i][1] < transcript_rows[j][1]

\* The same spans packed in two insertion orders (as given, and by
\* ascending start) give a different number of rows.
C3_Witness ==
    /\ PackDone
    /\ Len(transcript_rows) #
           Len(ArrangeLoop(SortedByStart(transcript_ranges, NumTranscripts),
                           NumTranscripts, transcript_ranges))

\* C4: the rows partition the names of the mapping: every name is at
\* exactly one place, no row is empty, no foreign name appears, the empty
\* mapping gives no row, and inside a row the names are in insertion order.
C4_RowsPartitionNames ==
    PackDone =>
        /\ \A a \in 1..NumTranscripts :
              Cardinality({p \in Places : transcript_rows[p[1]][p[2]] = a}) = 1
        /\ \A p \in Places : transcript_rows[p[1]][p[2]] \in 1..NumTranscripts
        /\ \A i \in 1..Len(transcript_rows) : Len(transcript_rows[i]) >= 1
        /\ NumTranscripts = 0 => transcript_rows = <<>>
        /\ \A i \in 1..Len(transcript_rows) :
              \A j \in 1..Len(transcript_rows[i]) :
                  \A k \in 1..Len(transcript_rows[i]) :
                      j < k => transcript_rows[i][j] < transcript_rows[i][k]

\* A mapping of at least three names packed into several rows, one of
\* them shared.
C4_Witness ==
    /\ PackDone
    /\ NumTranscripts >= 3
    /\ Len(transcript_rows) >= 2
    /\ \E i \in 1..Len(transcript_rows) : Len(transcript_rows[i]) >= 2

\* The row a name was placed in.
RowOf(a) == CHOOSE i \in 1..Len(transcript_rows) :
                \E j \in 1..Len(transcript_rows[i]) : transcript_rows[i][j] = a

\* C17: first fit in insertion order: a transcript in row k overlaps, in
\* every row j < k, a transcript that was inserted before it (so no lower
\* row was free when it was placed, and a row is opened only when every
\* existing row holds an overlapping occupant).
C17_FirstFit ==
    PackDone =>
        \A a \in 1..NumTranscripts :
            \A j \in 1..(RowOf(a) - 1) :
                \E k \in 1..Len(transcript_rows[j]) :
                    /\ transcript_rows[j][k] < a
                    /\ ~Disjoint(transcript_rows[j][k], a)

\* Three rows, and a transcript that went back to the first row after the
\* third row was opened.
C17_Witness ==
    /\ PackDone
    /\ Len(transcript_rows) >= 3
    /\ \E k \in 1..Len(transcript_rows[1]) :
          transcript_rows[1][k] > transcript_rows[3][1]

\* The largest number of transcripts whose spans pairwise overlap.
CliqueNumber ==
    LET cliques == {S \in SUBSET (1..NumTranscripts) :
                       \A a \in S : \A b \in S : a # b => ~Disjoint(a, b)}
    IN  SetMax({Cardinality(S) : S \in cliques})

\* The insertion order is ascending by span start.
InsertedByStart ==
    \A a \in 1..NumTranscripts : \A b \in 1..NumTranscripts :
        a < b => transcript_ranges[a].start <= transcript_ranges[b].start

\* C18: the number of rows is never below the largest number of pairwise
\* overlapping transcripts, and equals it when the insertion order is
\* ascending by span start.
C18_MinimalWhenInsertedByStart ==
    PackDone =>
        /\ Len(transcript_rows) >= CliqueNumber
        /\ InsertedByStart => Len(transcript_rows) = CliqueNumber

\* An insertion order that is not by start and needs more rows than the
\* minimum, which the same spans inserted by start do reach.
C18_Witness ==
    /\ PackDone
    /\ ~InsertedByStart
    /\ Len(transcript_rows) > CliqueNumber
    /\ Len(ArrangeLoop(SortedByStart(transcript_ranges, NumTranscripts),
                       NumTranscripts, transcript_ranges)) = CliqueNumber

\* Spans inserted by start, some overlapping, packed into the minimum of
\* two rows with a row shared.
C18_WitnessInsertedByStart ==
    /\ PackDone
    /\ InsertedByStart
    /\ NumTranscripts >= 3
    /\ CliqueNumber = 2
    /\ Len(transcript_rows) = 2

----------------------------------------------------------------------------
(* AnnotationExtractor: GenBankCreator._parse_gff3_features.               *)
(* A text is the sequence of its characters.  A line of the file is kept   *)
(* as what line.strip().split('\t') makes of it: nfields parts, of which   *)
(* seqname, feature_type, start_pos, end_pos, strand and attributes are    *)
(* read (source, score and phase never are); a line of fewer than nine     *)
(* parts has no attributes part.  A coordinate part is either the decimal  *)
(* text of an integer v, or a text on which int() raises ValueError.  The  *)
(* attributes part is the sequence of its "key=value" items between the    *)
(* ';' (an item without '=' is never stored and is left out).              *)

MaxLines == 3

\* The chromosome of the window.
chrom == "Chr1"

Max2(a, b) == IF a >= b THEN a ELSE b

\* text.split(sep)[0]
RECURSIVE BeforeFirst(_, _)
BeforeFirst(text, sep) ==
    IF text = <<>> \/ Head(text) = sep THEN <<>>
    ELSE <<Head(text)>> \o BeforeFirst(Tail(text), sep)

\* text.split(sep)
RECURSIVE split(_, _)
split(text, sep) ==
    IF \A i \in 1..Len(text) : text[i] # sep THEN <<text>>
    ELSE <<BeforeFirst(text, sep)>> \o
         split(SubSeq(text, Len(BeforeFirst(text, sep)) + 2, Len(text)), sep)

\* A dict is a function; the empty dict:
EmptyDict == [k \in {} |-> <<>>]

\* dict.get(key, default)
get(dict, key, default) == IF key \in DOMAIN dict THEN dict[key] ELSE default

\* dict[key] = value
put(dict, key, value) ==
    [k \in (DOMAIN dict) \cup {key} |-> IF k = key THEN value ELSE dict[k]]

\* GenBankCreator.__init__ (genbank_creator.py 20-29).
target_feature_types ==
    [k \in {"five_prime_UTR", "five_prime_utr", "5UTR", "CDS", "cds",
            "three_prime_UTR", "three_prime_utr", "3UTR"} |->
        IF k \in {"five_prime_UTR", "five_prime_utr", "5UTR"} THEN <<"5", "U", "T", "R">>
        ELSE IF k \in {"CDS", "cds"} THEN <<"C", "D", "S">>
        ELSE <<"3", "U", "T", "R">>]

\* genbank_creator.py 189-196: a later item replaces an earlier one of the
\* same key.
RECURSIVE _parse_gff_attributes(_)
_parse_gff_attributes(attributes) ==
    IF attributes = <<>> THEN EmptyDict
    ELSE LET n == Len(attributes)
         IN  put(_parse_gff_attributes(SubSeq(attributes, 1, n - 1)),
                 attributes[n].key, attributes[n].value)

\* One line of the first pass (95-126).  Unpacking the parts into nine
\* names (102) raises ValueError when there are more than nine.
FirstPassLine(map, line, s, e) ==
    IF line.comment \/ line.nfields < 9
    THEN [raised |-> FALSE, transcript_map |-> map]
    ELSE IF line.nfields # 9
    THEN [raised |-> TRUE, transcript_map |-> map]
    ELSE IF line.seqname # chrom \/ line.feature_type \notin {"mRNA", "transcript"}
    THEN [raised |-> FALSE, transcript_map |-> map]
    ELSE IF ~line.start_pos.int \/ ~line.end_pos.int
    THEN [raised |-> FALSE, transcript_map |-> map]
    ELSE IF line.start_pos.v > e \/ line.end_pos.v < s
    THEN [raised |-> FALSE, transcript_map |-> map]
    ELSE LET attr_dict == _parse_gff_attributes(line.attributes)
             transcript_id == get(attr_dict, "ID", <<>>)
             transcript_name == get(attr_dict, "Name", get(attr_dict, "ID", <<>>))
         IN  IF transcript_id # <<>> /\ transcript_name # <<>>
             THEN [raised |-> FALSE,
                   transcript_map |-> put(map, transcript_id, transcript_name)]
             ELSE [raised |-> FALSE, transcript_map |-> map]

\* Mutant: the relative end is not clipped to the window.
relative_end_unclipped(feat_end, s, e) == feat_end - s + 1

\* genbank_creator.py 172-173.
relative_start(feat_start, s) == Max2(0, feat_start - s)

relative_end(feat_end, s, e) == Min2(e - s + 1, feat_end - s + 1)

\* Mutant: the first Parent id names the transcript, whatever the map holds.
transcript_name_first_parent(attr_dict, map) ==
    LET parent_attr == get(attr_dict, "Parent", <<>>)
    IN  IF parent_attr = <<>> THEN <<"U", "n", "k", "n", "o", "w", "n">>
        ELSE BeforeFirst(split(parent_attr, ",")[1], ".")

\* _create_seq_feature, the transcript name (202-214).
transcript_name_of(attr_dict, map) ==
    LET parent_attr == get(attr_dict, "Parent", <<>>)
        parent_ids == split(parent_attr, ",")
        found == {i \in 1..Len(parent_ids) : parent_ids[i] \in DOMAIN map}
    IN  IF parent_attr = <<>> THEN <<"U", "n", "k", "n", "o", "w", "n">>
        ELSE IF found # {} THEN map[parent_ids[SetMin(found)]]
        ELSE BeforeFirst(parent_ids[1], ".")

\* genbank_creator.py 198-240.  The strand None is kept as 0; of the
\* qualifiers only the label is kept.
_create_seq_feature(feature_type, rel_start, rel_end, strand, attr_dict, map) ==
    [type |-> feature_type,
     start |-> rel_start,
     end |-> rel_end,
     strand |-> IF strand = "+" THEN 1 ELSE IF strand = "-" THEN -1 ELSE 0,
     label |-> transcript_name_of(attr_dict, map) \o <<"-">>
               \o target_feature_types[feature_type]]

\* One line of the second pass (136-182).
SecondPassLine(feats, line, map, s, e) ==
    IF line.comment \/ line.nfields < 9
    THEN [raised |-> FALSE, features |-> feats]
    ELSE IF line.nfields # 9
    THEN [raised |-> TRUE, features |-> feats]
    ELSE IF line.seqname # chrom
    THEN [raised |-> FALSE, features |-> feats]
    ELSE IF line.feature_type \notin DOMAIN target_feature_types
    THEN [raised |-> FALSE, features |-> feats]
    ELSE IF ~line.start_pos.int \/ ~line.end_pos.int
    THEN [raised |-> FALSE, features |-> feats]
    ELSE IF line.start_pos.v > e \/ line.end_pos.v < s
    THEN [raised |-> FALSE, features |-> feats]
    ELSE IF relative_end(line.end_pos.v, s, e) > relative_start(line.start_pos.v, s)
    THEN [raised |-> FALSE,
          features |-> Append(feats,
              _create_seq_feature(line.feature_type,
                                  relative_start(line.start_pos.v, s),
                                  relative_end(line.end_pos.v, s, e),
                                  line.strand,
                                  _parse_gff_attributes(line.attributes), map))]
    ELSE [raised |-> FALSE, features |-> feats]

\* The first pass over the first n lines of a file.
RECURSIVE first_pass(_, _, _, _)
first_pass(file, n, s, e) ==
    IF n = 0 THEN [raised |-> FALSE, transcript_map |-> EmptyDict]
    ELSE LET sofar == first_pass(file, n - 1, s, e)
         IN  IF sofar.raised THEN sofar
             ELSE FirstPassLine(sofar.transcript_map, file[n], s, e)

\* Mutant: the second pass sees, at line n, the map of the lines ahead of
\* it only (one pass instead of two).
map_seen_so_far(map, file, n, s, e) == first_pass(file, n, s, e).transcript_map

\* The map handed to _create_seq_feature at line n of the second pass
\* (180) is the map the first pass left.
map_in_second_pass(map, file, n, s, e) == map

\* The second pass over the first n lines of a file.
RECURSIVE second_pass(_, _, _, _, _)
second_pass(file, n, map, s, e) ==
    IF n = 0 THEN [raised |-> FALSE, features |-> <<>>]
    ELSE LET sofar == second_pass(file, n - 1, map, s, e)
         IN  IF sofar.raised THEN sofar
             ELSE SecondPassLine(sofar.features, file[n],
                                 map_in_second_pass(map, file, n, s, e), s, e)

\* genbank_creator.py 85-187.
_parse_gff3_features(file, s, e) ==
    LET one == first_pass(file, Len(file), s, e)
    IN  IF one.raised THEN [raised |-> TRUE, features |-> <<>>]
        ELSE second_pass(file, Len(file), one.transcript_map, s, e)

\* The inputs of the extractor: the windows and the lines a file holds.
GffWindows == {<<100, 200>>, <<200, 199>>}

Digits(v) == [int |-> TRUE, v |-> v]

NotDigits == [int |-> FALSE, v |-> 0]

Attr(key, value) == [key |-> key, value |-> value]

Record(seqname, feature_type, start_pos, end_pos, strand, attributes) ==
    [comment |-> FALSE, nfields |-> 9, seqname |-> seqname,
     feature_type |-> feature_type, start_pos |-> start_pos,
     end_pos |-> end_pos, strand |-> strand, attributes |-> attributes]

t1 == <<"t", "1">>
t2 == <<"t", "2", ".", "1">>
t3 == <<"t", "3", ".", "1">>
t9 == <<"t", "9", ".", "2">>
GeneA == <<"G", "e", "n", "e", "A">>
GeneB == <<"G", "e", "n", "e", "B">>
Gene_B == <<"G", "e", "n", "e", "-", "B">>

\* The mRNA/transcript records.
TranscriptLines ==
    {Record("Chr1", "mRNA", Digits(50), Digits(250), "+", <<Attr("ID", t1), Attr("Name", GeneA)>>),
     Record("Chr1", "transcript", Digits(120), Digits(180), "+", <<Attr("ID", t1), Attr("Name", Gene_B)>>),
     Record("Chr1", "mRNA", Digits(50), Digits(250), "+", <<Attr("ID", t2)>>),
     Record("Chr1", "mRNA", Digits(190), Digits(260), "-", <<Attr("ID", t3), Attr("Name", <<>>)>>),
     Record("Chr1", "mRNA", Digits(300), Digits(400), "+", <<Attr("ID", t1), Attr("Name", GeneB)>>),
     Record("Chr2", "mRNA", Digits(50), Digits(250), "+", <<Attr("ID", t1), Attr("Name", GeneB)>>),
     Record("Chr1", "mRNA", NotDigits, Digits(250), "+", <<Attr("ID", t1), Attr("Name", GeneB)>>)}

\* The component records, and a record of another kind.
ComponentLines ==
    {Record("Chr1", "CDS", Digits(150), Digits(180), "+", <<Attr("Parent", t1)>>),
     Record("Chr1", "five_prime_UTR", Digits(90), Digits(110), "+",
            <<Attr("Parent", t9 \o <<",">> \o t2)>>),
     Record("Chr1", "three_prime_utr", Digits(190), Digits(260), "-", <<Attr("Parent", t3)>>),
     Record("Chr1", "CDS", Digits(111), Digits(130), ".", <<Attr("ID", <<"c", "1">>)>>),
     Record("Chr1", "CDS", Digits(10), Digits(20), "+", <<Attr("Parent", t1)>>),
     Record("Chr1", "cds", Digits(150), NotDigits, "+", <<Attr("Parent", t1)>>),
     Record("Chr1", "CDS", Digits(160), Digits(140), "+", <<Attr("Parent", t1)>>),
     Record("Chr2", "CDS", Digits(150), Digits(180), "+", <<Attr("Parent", t1)>>),
     Record("Chr1", "gene", Digits(50), Digits(250), "+", <<Attr("ID", t1), Attr("Name", GeneB)>>)}

\* A comment, a record cut after its eighth part and a record with a part
\* too many (a tab inside its attributes).
OtherLines ==
    {[Record("", "", NotDigits, NotDigits, "", <<>>) EXCEPT !.comment = TRUE, !.nfields = 0],
     [Record("Chr1", "CDS", Digits(150), Digits(180), "+", <<>>) EXCEPT !.nfields = 8],
     [Record("Chr1", "CDS", Digits(150), Digits(180), "+", <<Attr("Parent", t1)>>)
         EXCEPT !.nfields = 10]}

FileLines == TranscriptLines \cup ComponentLines \cup OtherLines

\* One iteration of the first loop (94-126); the lines of the file are
\* drawn as the loop reads them.
ReadLineFirstPass ==
    /\ pc = "gff_pass1"
    /\ Len(lines) < MaxLines
    /\ \E line \in FileLines :
          LET res == FirstPassLine(transcript_map, line, start, end)
          IN  /\ lines' = Append(lines, line)
              /\ transcript_map' = res.transcript_map
              /\ pc' = IF res.raised THEN "gff_raised" ELSE pc
    /\ UNCHANGED <<line_num, features, start, end, fp_columns, n_rows, row,
                   radius_range, heatmap_data, radii, before,
                   packVars, multiVars, renderVars>>

\* End of the file in the first pass; the file is opened again (128-134).
EndFirstPass ==
    /\ pc = "gff_pass1"
    /\ pc' = "gff_pass2"
    /\ UNCHANGED <<packVars, heatVars, multiVars, gffVars, renderVars>>

\* One iteration of the second loop (135-182).
ReadLineSecondPass ==
    /\ pc = "gff_pass2"
    /\ line_num < Len(lines)
    /\ LET res == SecondPassLine(features, lines[line_num + 1],
                                 map_in_second_pass(transcript_map, lines,
                                                    line_num + 1, start, end),
                                 start, end)
       IN  /\ features' = res.features
           /\ pc' = IF res.raised THEN "gff_raised" ELSE pc
    /\ line_num' = line_num + 1
    /\ UNCHANGED <<lines, transcript_map, packVars, heatVars, multiVars, renderVars>>

\* End of the file in the second pass: return features (187).
ParseReturn ==
    /\ pc = "gff_pass2"
    /\ line_num = Len(lines)
    /\ pc' = "gff_done"
    /\ UNCHANGED <<packVars, heatVars, multiVars, gffVars, renderVars>>

\* '-' in label
contains(label, ch) == \E i \in 1..Len(label) : label[i] = ch

\* One iteration of the loop over record.features (visualizer.py 134-162).
\* transcripts is an insertion-ordered dict: the sequence of its entries,
\* each a name and the list of its components.
AddComponent(transcripts, feature) ==
    LET label == feature.label
        component(component_type) ==
            [feature |-> feature, component_type |-> component_type,
             start |-> feature.start, end |-> feature.end,
             strand |-> feature.strand, label |-> label]
        at(transcript_name) ==
            {i \in 1..Len(transcripts) : transcripts[i].name = transcript_name}
    IN  IF contains(label, "-")
        THEN LET transcript_name == split(label, "-")[1]
                 component_type == split(label, "-")[2]
             IN  IF at(transcript_name) = {}
                 THEN Append(transcripts,
                             [name |-> transcript_name,
                              components |-> <<component(component_type)>>])
                 ELSE [transcripts EXCEPT
                          ![SetMin(at(transcript_name))].components =
                              Append(@, component(component_type))]
        ELSE IF at(label) = {}
             THEN Append(transcripts,
                         [name |-> label, components |-> <<component(feature.type)>>])
             ELSE [transcripts EXCEPT
                      ![SetMin(at(label))].components = <<component(feature.type)>>]

RECURSIVE GroupFeatures(_, _)
GroupFeatures(record_features, n) ==
    IF n = 0 THEN <<>>
    ELSE AddComponent(GroupFeatures(record_features, n - 1), record_features[n])

\* visualizer.py 171-179: the span of a transcript.
RangeOf(entry) ==
    LET starts == {entry.components[j].start : j \in 1..Len(entry.components)}
        ends == {entry.components[j].end : j \in 1..Len(entry.components)}
    IN  [name |-> entry.name, start |-> SetMin(starts), end |-> SetMax(ends),
         components |-> entry.components]

\* visualizer.py 125-188.
create_transcript_layout_visualization(record_features) ==
    LET transcripts == GroupFeatures(record_features, Len(record_features))
        ranges == [k \in 1..Len(transcripts) |-> RangeOf(transcripts[k])]
    IN  [transcript_rows |-> _arrange_transcript_rows(ranges),
         transcript_ranges |-> ranges]

\* The features the extractor returned are laid out.
CreateTranscriptLayout ==
    /\ pc = "gff_done"
    /\ LET res == create_transcript_layout_visualization(features)
       IN  /\ transcript_rows' = res.transcript_rows
           /\ transcript_ranges' = res.transcript_ranges
    /\ pc' = "layout_done"
    /\ UNCHANGED <<heatVars, multiVars, gffVars, renderVars>>

InitGff ==
    /\ pc = "gff_pass1"
    /\ \E w \in GffWindows : start = w[1] /\ end = w[2]
    /\ lines = <<>>
    /\ line_num = 0
    /\ transcript_map = EmptyDict
    /\ features = <<>>
    /\ fp_columns = [rcols |-> {}, long |-> TRUE]
    /\ n_rows = 0
    /\ row = None
    /\ radius_range = None
    /\ heatmap_data = <<>>
    /\ radii = {}
    /\ before = <<>>
    /\ PackIdle
    /\ MultiIdle
    /\ RenderIdle

NextGff ==
    \/ ReadLineFirstPass
    \/ EndFirstPass
    \/ ReadLineSecondPass
    \/ ParseReturn
    \/ CreateTranscriptLayout

SpecGff == InitGff /\ [][NextGff]_vars

\* Every variable has a value of its kind in every reachable state.
GffTypeOK ==
    /\ pc \in {"gff_pass1", "gff_pass2", "gff_done", "gff_raised", "layout_done"}
    /\ Len(lines) <= MaxLines
    /\ line_num \in 0..Len(lines)

----------------------------------------------------------------------------
(* Claims about the extractor, checked under SpecGff.  In the second pass  *)
(* and after it, features is what the lines 1..line_num have produced.     *)

InSecondPass == pc \in {"gff_pass2", "gff_done"}

WindowLength == end - start + 1

\* A well-formed record of a recognized component kind on the window
\* chromosome.
Recognized(line) ==
    /\ ~line.comment
    /\ line.nfields = 9
    /\ line.seqname = "Chr1"
    /\ line.feature_type \in {"five_prime_UTR", "five_prime_utr", "5UTR", "CDS", "cds",
                              "three_prime_UTR", "three_prime_utr", "3UTR"}
    /\ line.start_pos.int
    /\ line.end_pos.int

\* feat_start > window.end or feat_end < window.start
OutsideWindow(line) == line.start_pos.v > end \/ line.end_pos.v < start

ClaimedRelStart(line) ==
    IF line.start_pos.v - start > 0 THEN line.start_pos.v - start ELSE 0

ClaimedRelEnd(line) ==
    IF line.end_pos.v - start + 1 < WindowLength
    THEN line.end_pos.v - start + 1 ELSE WindowLength

\* The lines among the first n that are to produce a feature: recognized,
\* not outside the window, not empty after clipping.
EmittingLines(n) ==
    {i \in 1..n : /\ Recognized(lines[i])
                  /\ ~OutsideWindow(lines[i])
                  /\ ClaimedRelEnd(lines[i]) > ClaimedRelStart(lines[i])}

\* The line the k-th feature comes from: the k-th emitting line.
Origin(k) ==
    CHOOSE i \in EmittingLines(line_num) :
        Cardinality({j \in EmittingLines(line_num) : j <= i}) = k

\* C11: in a window with start <= end, a recognized feature outside the
\* window produces nothing, and the features emitted are, in order, those
\* of the recognized records overlapping the window, each with
\* rel_start = max(0, feat_start - start),
\* rel_end = min(window_length, feat_end - start + 1) and
\* 0 <= rel_start < rel_end <= window_length.
C11_ClippedToWindow ==
    (start <= end /\ InSecondPass) =>
        /\ Len(features) = Cardinality(EmittingLines(line_num))
        /\ \A k \in 1..Len(features) :
              /\ ~OutsideWindow(lines[Origin(k)])
              /\ features[k].start = ClaimedRelStart(lines[Origin(k)])
              /\ features[k].end = ClaimedRelEnd(lines[Origin(k)])
              /\ 0 <= features[k].start
              /\ features[k].start < features[k].end
              /\ features[k].end <= WindowLength

\* A file with a recognized record outside the window, one reaching over
\* the window start and one reaching over the window end: two features,
\* clipped to [0, 11) and [90, 101).
C11_Witness ==
    /\ pc = "gff_done"
    /\ start = 100 /\ end = 200
    /\ \E i \in 1..Len(lines) : Recognized(lines[i]) /\ OutsideWindow(lines[i])
    /\ Len(features) = 2
    /\ \E k \in 1..2 : features[k].start = 0 /\ features[k].end = 11
    /\ \E k \in 1..2 : features[k].start = 90 /\ features[k].end = 101

\* The value of the Parent attribute of a line, empty when it has none.
ParentOf(line) ==
    LET at == {i \in 1..Len(line.attributes) : line.attributes[i].key = "Parent"}
    IN  IF at = {} THEN <<>> ELSE line.attributes[SetMax(at)].value

\* The transcript name the claim gives a component record.
ClaimedName(line) ==
    LET parents == split(ParentOf(line), ",")
        known == {i \in 1..Len(parents) : parents[i] \in DOMAIN transcript_map}
    IN  IF ParentOf(line) = <<>> THEN <<"U", "n", "k", "n", "o", "w", "n">>
        ELSE IF known # {} THEN transcript_map[parents[SetMin(known)]]
        ELSE BeforeFirst(parents[1], ".")

ClaimedType(line) ==
    IF line.feature_type \in {"five_prime_UTR", "five_prime_utr", "5UTR"}
    THEN <<"5", "U", "T", "R">>
    ELSE IF line.feature_type \in {"CDS", "cds"} THEN <<"C", "D", "S">>
    ELSE <<"3", "U", "T", "R">>

\* The file of the example: mRNA 50-250 ID=t1;Name=GeneA, then
\* CDS 150-180 Parent=t1.
ExampleFile ==
    /\ Len(lines) = 2
    /\ lines[1] = Record("Chr1", "mRNA", Digits(50), Digits(250), "+",
                         <<Attr("ID", t1), Attr("Name", GeneA)>>)
    /\ lines[2] = Record("Chr1", "CDS", Digits(150), Digits(180), "+",
                         <<Attr("Parent", t1)>>)

\* C12: every feature is labeled "<transcript_name>-<component_type>", the
\* name being the mapped name of the first Parent id that is in the
\* transcript map, else the text before the first '.' of the first Parent
\* id, else "Unknown" when there is no Parent; the example file in the
\* window 100-200 gives exactly one feature, "GeneA-CDS" over [50, 81).
C12_LabelFromParent ==
    (start <= end /\ InSecondPass) =>
        /\ \A k \in 1..Len(features) :
              k <= Cardinality(EmittingLines(line_num)) =>
                  features[k].label =
                      ClaimedName(lines[Origin(k)]) \o <<"-">> \o ClaimedType(lines[Origin(k)])
        /\ (pc = "gff_done" /\ ExampleFile) =>
              /\ Len(features) = 1
              /\ features[1].label = <<"G", "e", "n", "e", "A", "-", "C", "D", "S">>
              /\ features[1].start = 50
              /\ features[1].end = 81

\* The example of the claim has run.
C12_Witness ==
    /\ pc = "gff_done"
    /\ start = 100 /\ end = 200
    /\ ExampleFile
    /\ Len(features) = 1
    /\ features[1].label = <<"G", "e", "n", "e", "A", "-", "C", "D", "S">>

\* A mapped parent and no parent in one file.
C12_WitnessMappedAndUnknown ==
    /\ pc = "gff_done"
    /\ Len(features) = 2
    /\ \E k \in 1..2 : features[k].label = <<"G", "e", "n", "e", "A", "-", "C", "D", "S">>
    /\ \E k \in 1..2 : features[k].label = <<"U", "n", "k", "n", "o", "w", "n", "-", "C", "D", "S">>

\* A line that is a record of nine parts with integer coordinates, or
\* that is no record at all (comment).
WellFormed(line) ==
    \/ line.comment
    \/ /\ line.nfields = 9
       /\ line.start_pos.int
       /\ line.end_pos.int

\* C13: no line makes the parse fail; a line that is not a well-formed
\* record (fewer or more than nine parts, a coordinate that is no integer)
\* is skipped in both passes: the map and the features are those of the
\* well-formed lines alone, and the lines after it are still processed.
C13_MalformedLinesSkipped ==
    /\ start <= end => pc # "gff_raised"
    /\ pc = "gff_pass1" =>
          transcript_map =
              first_pass(SelectSeq(lines, WellFormed),
                         Len(SelectSeq(lines, WellFormed)), start, end).transcript_map
    /\ pc = "gff_done" =>
          /\ line_num = Len(lines)
          /\ features = _parse_gff3_features(SelectSeq(lines, WellFormed), start, end).features

\* What holds of C13: the same for the files without a line of more than
\* nine parts.
C13_ShortAndNonIntegerSkipped ==
    (\A i \in 1..Len(lines) : lines[i].nfields <= 9) =>
        /\ pc # "gff_raised"
        /\ pc = "gff_pass1" =>
              transcript_map =
                  first_pass(SelectSeq(lines, WellFormed),
                             Len(SelectSeq(lines, WellFormed)), start, end).transcript_map
        /\ pc = "gff_done" =>
              /\ line_num = Len(lines)
              /\ features = _parse_gff3_features(SelectSeq(lines, WellFormed), start, end).features

\* A short line and a line with a coordinate that is no integer were
\* skipped, and a feature was emitted for a line after them.
C13_SkippedThenEmitted ==
    /\ pc = "gff_done"
    /\ Len(lines) = 3
    /\ lines[1].nfields = 8
    /\ ~lines[2].comment /\ lines[2].nfields = 9 /\ ~lines[2].end_pos.int
    /\ Len(features) = 1

\* C14: a window with start > end is signaled to the caller as a failure:
\* _parse_gff3_features does not return a feature list for it.
C14_InvalidWindowSignaled ==
    start > end => pc # "gff_done"

\* A record of kind mRNA or transcript.
TranscriptRecord(line) ==
    /\ ~line.comment
    /\ line.nfields = 9
    /\ line.feature_type \in {"mRNA", "transcript"}

\* The value of the ID attribute of a line, empty when it has none.
IdOf(line) ==
    LET at == {i \in 1..Len(line.attributes) : line.attributes[i].key = "ID"}
    IN  IF at = {} THEN <<>> ELSE line.attributes[SetMax(at)].value

\* The file with the lines i and i + 1 exchanged.
Exchanged(i) ==
    [k \in 1..Len(lines) |->
        IF k = i THEN lines[i + 1] ELSE IF k = i + 1 THEN lines[i] ELSE lines[k]]

\* The map is complete before the second pass emits anything and is the
\* same all through the second pass.
MapBuiltBeforeSecondPass ==
    /\ pc = "gff_pass1" => (features = <<>> /\ line_num = 0)
    /\ InSecondPass =>
          transcript_map = first_pass(lines, Len(lines), start, end).transcript_map

\* C19, as stated: the map is built by the first pass and untouched by the
\* second, and moving an mRNA/transcript record by one line, past any
\* neighbour, leaves the output the same.
C19_OrderIndependent ==
    /\ MapBuiltBeforeSecondPass
    /\ pc = "gff_done" =>
          \A i \in 1..(Len(lines) - 1) :
              (TranscriptRecord(lines[i]) \/ TranscriptRecord(lines[i + 1])) =>
                  _parse_gff3_features(Exchanged(i), start, end).features = features

\* C19, amended: the same, for the moves that do not exchange two
\* mRNA/transcript records carrying the same ID (of which the later one
\* names the transcript).
C19_OrderIndependentUpToSameID ==
    /\ MapBuiltBeforeSecondPass
    /\ pc = "gff_done" =>
          \A i \in 1..(Len(lines) - 1) :
              (/\ TranscriptRecord(lines[i]) \/ TranscriptRecord(lines[i + 1])
               /\ ~(/\ TranscriptRecord(lines[i])
                    /\ TranscriptRecord(lines[i + 1])
                    /\ IdOf(lines[i]) = IdOf(lines[i + 1]))) =>
                  _parse_gff3_features(Exchanged(i), start, end).features = features

\* A component record read ahead of its parent record carries the name the
\* parent maps to.
C19_Witness ==
    /\ pc = "gff_done"
    /\ Len(lines) = 2
    /\ lines[1] = Record("Chr1", "CDS", Digits(150), Digits(180), "+",
                         <<Attr("Parent", t1)>>)
    /\ lines[2] = Record("Chr1", "mRNA", Digits(50), Digits(250), "+",
                         <<Attr("ID", t1), Attr("Name", GeneA)>>)
    /\ Len(features) = 1
    /\ features[1].label = <<"G", "e", "n", "e", "A", "-", "C", "D", "S">>

\* The value of the Name attribute of a line, empty when it has none.
NameOf(line) ==
    LET at == {i \in 1..Len(line.attributes) : line.attributes[i].key = "Name"}
    IN  IF at = {} THEN <<>> ELSE line.attributes[SetMax(at)].value

\* The line has a Name attribute, and its value is empty ("Name=").
HasEmptyName(line) ==
    /\ \E i \in 1..Len(line.attributes) : line.attributes[i].key = "Name"
    /\ NameOf(line) = <<>>

\* The records the claim gives an entry: kind mRNA or transcript, on the
\* window chromosome, with integer coordinates, overlapping the window.
MapRecords ==
    {i \in 1..Len(lines) : /\ TranscriptRecord(lines[i])
                           /\ lines[i].seqname = "Chr1"
                           /\ lines[i].start_pos.int
                           /\ lines[i].end_pos.int
                           /\ ~OutsideWindow(lines[i])}

\* The map holds an entry for exactly the records of R, keyed by ID, with
\* the Name as value, or the ID when there is no usable Name; of several
\* records with one ID the last one counts.
MapIsOf(R) ==
    /\ DOMAIN transcript_map = {IdOf(lines[i]) : i \in R}
    /\ \A i \in R :
          (\A j \in R : IdOf(lines[j]) = IdOf(lines[i]) => j <= i) =>
              transcript_map[IdOf(lines[i])] =
                  (IF NameOf(lines[i]) # <<>> THEN NameOf(lines[i]) ELSE IdOf(lines[i]))

\* C20: after the first pass the transcript map has an entry for exactly
\* the mRNA/transcript records on the window chromosome whose coordinates
\* parse and whose span overlaps the window, ID -> Name, or ID -> ID when
\* the record has no usable Name; other records add nothing.
C20_MapAfterFirstPass ==
    (start <= end /\ InSecondPass) => MapIsOf(MapRecords)

\* What holds of C20: the same, when the records with an empty Name
\* attribute are taken to add nothing.
C20_MapExceptEmptyName ==
    (start <= end /\ InSecondPass) =>
        MapIsOf({i \in MapRecords : ~HasEmptyName(lines[i])})

\* A file with a named record, a record without Name and a record outside
\* the window has given the entries t1 -> GeneA and t2.1 -> t2.1.
C20_NameAndFallback ==
    /\ pc = "gff_pass2"
    /\ Len(lines) = 3
    /\ DOMAIN transcript_map = {t1, t2}
    /\ transcript_map[t1] = GeneA
    /\ transcript_map[t2] = t2
    /\ \E i \in 1..3 : TranscriptRecord(lines[i]) /\ OutsideWindow(lines[i])

\* The records among the first n lines that the claim has produce a
\* feature: on the window chromosome, of one of the eight kinds, with
\* feat_start <= feat_end and a span overlapping the window.
KeptLines(n) ==
    {i \in 1..n : /\ Recognized(lines[i])
                  /\ lines[i].start_pos.v <= lines[i].end_pos.v
                  /\ ~OutsideWindow(lines[i])}

\* The k-th of them.
KeptLine(k) ==
    CHOOSE i \in KeptLines(line_num) :
        Cardinality({j \in KeptLines(line_num) : j <= i}) = k

\* The features are, one for one and in order, those of the kept lines.
FeaturesAreKeptLines ==
    /\ Len(features) = Cardinality(KeptLines(line_num))
    /\ \A k \in 1..Len(features) :
          k <= Cardinality(KeptLines(line_num)) =>
              /\ features[k].type = lines[KeptLine(k)].feature_type
              /\ features[k].start = ClaimedRelStart(lines[KeptLine(k)])
              /\ features[k].end = ClaimedRelEnd(lines[KeptLine(k)])

\* C21: for a valid window the parse returns, and its output is the
\* order-preserving filter of the input: one feature for every record on
\* the window chromosome of one of the eight kinds with
\* feat_start <= feat_end that overlaps the window, none for any other
\* line, in input order.
C21_OrderPreservingFilter ==
    start <= end =>
        /\ pc # "gff_raised"
        /\ InSecondPass => FeaturesAreKeptLines

\* What holds of C21: whenever the parse gets to its second pass, the
\* features are the order-preserving filter of the lines read.
C21_FilterWhenParseReturns ==
    (start <= end /\ InSecondPass) => FeaturesAreKeptLines

\* Three kept records in an order that is not the order of their
\* coordinates, one of them listing two Parents: three features, in
\* input order.
C21_ThreeKeptInInputOrder ==
    /\ pc = "gff_done"
    /\ Len(features) = 3
    /\ features[1].start > features[2].start
    /\ \E i \in 1..3 : Len(split(ParentOf(lines[i]), ",")) = 2

\* The transcript of the layout that holds the k-th feature.
GroupOf(k) ==
    CHOOSE i \in 1..Len(transcript_ranges) :
        \E j \in 1..Len(transcript_ranges[i].components) :
            transcript_ranges[i].components[j].feature = features[k]

\* The features the extractor gave the name of the i-th transcript of the
\* layout.
OwnFeatures(i) ==
    {k \in 1..Len(features) :
        ClaimedName(lines[Origin(k)]) = transcript_ranges[i].name}

LabelRoundTrip ==
    /\ \A k \in 1..Len(features) :
          /\ \E i \in 1..Len(transcript_ranges) :
                \E j \in 1..Len(transcript_ranges[i].components) :
                    LET component == transcript_ranges[i].components[j]
                    IN  /\ component.feature = features[k]
                        /\ component.component_type = ClaimedType(lines[Origin(k)])
          /\ transcript_ranges[GroupOf(k)].name = ClaimedName(lines[Origin(k)])
    /\ \A k \in 1..Len(features) : \A m \in 1..Len(features) :
          (GroupOf(k) = GroupOf(m)) <=>
              (ClaimedName(lines[Origin(k)]) = ClaimedName(lines[Origin(m)]))
    /\ \A i \in 1..Len(transcript_ranges) :
          /\ OwnFeatures(i) # {}
          /\ Len(transcript_ranges[i].components) = Cardinality(OwnFeatures(i))
          /\ transcript_ranges[i].start = SetMin({features[k].start : k \in OwnFeatures(i)})
          /\ transcript_ranges[i].end = SetMax({features[k].end : k \in OwnFeatures(i)})

LaidOut == pc = "layout_done" /\ start <= end

\* C23: the layout recovers, from the label "<transcript_name>-<type>" of
\* every feature, exactly the transcript name and the component type the
\* extractor gave it, also for a name that contains '-'; two features are
\* in the same transcript exactly when they were given the same name, and
\* the span of a transcript is (min start, max end) over its own
\* components.
C23_LabelRoundTrip == LaidOut => LabelRoundTrip

\* The round trip for the files where no feature was given a name with
\* '-' in it.
C23_RoundTripWithoutSeparator ==
    (LaidOut /\ \A k \in 1..Len(features) :
                    ~contains(ClaimedName(lines[Origin(k)]), "-"))
        => LabelRoundTrip

\* Two features of one transcript and one of another, grouped by name.
C23_TwoTranscriptsGrouped ==
    /\ LaidOut
    /\ Len(features) = 3
    /\ Len(transcript_ranges) = 2
    /\ \E i \in 1..2 : /\ Len(transcript_ranges[i].components) = 2
                       /\ transcript_ranges[i].start < transcript_ranges[i].end
    /\ LabelRoundTrip

\* The inclusive genomic span of a transcript of the layout: its span is
\* window-relative, 0-based and half-open.
GenomicSpan(t) == (t.start + start)..(t.end - 1 + start)

SharesBase(a, b) ==
    GenomicSpan(transcript_ranges[a]) \cap GenomicSpan(transcript_ranges[b]) # {}

\* One ends at genomic position p and the other starts at p + 1.
Adjacent(a, b) ==
    \/ transcript_ranges[a].end - 1 + start + 1 = transcript_ranges[b].start + start
    \/ transcript_ranges[b].end - 1 + start + 1 = transcript_ranges[a].start + start

SameRow(a, b) ==
    \E i \in 1..Len(transcript_rows) :
        \E j \in 1..Len(transcript_rows[i]) : \E k \in 1..Len(transcript_rows[i]) :
            transcript_rows[i][j] = a /\ transcript_rows[i][k] = b

LaidOutPairs ==
    {p \in (1..Len(transcript_ranges)) \X (1..Len(transcript_ranges)) : p[1] # p[2]}

C24_WitnessSharedRow ==
    /\ LaidOut
    /\ Len(transcript_ranges) = 2
    /\ ~SharesBase(1, 2)
    /\ ~Adjacent(1, 2)
    /\ SameRow(1, 2)

----------------------------------------------------------------------------
(* Rendering of the transcript rows and the heatmap tracks:                *)
(* plot_region_with_footprints (api.py 81-141) and                         *)
(* plot_multi_tissue_comparison (api.py 207-306).  transcript_ranges holds *)
(* the spans create_transcript_layout_visualization computed from the      *)
(* features of the record, empty when the record has no feature.  Axes are *)
(* numbered from 0.                                                        *)

\* The parameters of draw_transcript_row after self (visualizer.py 224).
draw_transcript_row_params ==
    <<"ax", "transcript_row", "transcript_ranges", "transcripts", "record", "start_pos">>

\* The call of api.py 106 and 226: six positional arguments and the
\* keyword argument region_len.
draw_transcript_row_call ==
    [positional |-> <<"axes[row_idx]", "transcript_row", "transcript_ranges",
                      "transcripts", "record", "start">>,
     keywords |-> {"region_len"}]

\* Binding of the arguments of a call to the parameters of a function
\* without *args or **kwargs: TypeError unless every positional argument
\* has a parameter and every keyword names a parameter not yet bound.
BindsArguments(params, call) ==
    /\ Len(call.positional) <= Len(params)
    /\ \A kw \in call.keywords :
          \E i \in (Len(call.positional) + 1)..Len(params) : params[i] = kw

\* The number of heatmap tracks: one, or one per tissue.
NumHeatmaps ==
    IF api_call = "plot_region_with_footprints" THEN 1 ELSE n_tissues

\* api.py 81-82, 210-211: the layout, when the record has features.
RenderLayout ==
    /\ pc = "render_call"
    /\ transcript_rows' = _arrange_transcript_rows(transcript_ranges)
    /\ pc' = "render_annotation"
    /\ UNCHANGED <<transcript_ranges, api_call, max_score, axes_drawn, n_tissues, tissue_data,
                   all_max_scores, global_max, drawn, heatVars, gffVars>>

\* api.py 114-135, 229-268: one row or no feature; the annotation is
\* plotted on the first axis.
DrawSingleAnnotation ==
    /\ pc = "render_annotation"
    /\ Len(transcript_rows) <= 1
    /\ axes_drawn' = Append(axes_drawn, [ax |-> 0, what |-> "annotation", item |-> 0])
    /\ pc' = "render_heatmaps"
    /\ UNCHANGED <<packVars, api_call, max_score, heatVars, multiVars, gffVars>>

\* api.py 105-108, 225-227: one iteration of the loop over the rows.
DrawTranscriptRow ==
    /\ pc = "render_annotation"
    /\ Len(transcript_rows) > 1
    /\ LET row_idx == Len(axes_drawn)
       IN  IF BindsArguments(draw_transcript_row_params, draw_transcript_row_call)
           THEN /\ axes_drawn' = Append(axes_drawn,
                                        [ax |-> row_idx, what |-> "transcript_row",
                                         item |-> row_idx])
                /\ pc' = IF row_idx + 1 = Len(transcript_rows)
                         THEN "render_heatmaps" ELSE pc
           ELSE /\ axes_drawn' = axes_drawn
                /\ pc' = "render_raised"
    /\ UNCHANGED <<packVars, api_call, max_score, heatVars, multiVars, gffVars>>

\* api.py 111, 141 and 304-306: the heatmaps, on the last axis (single
\* track) or on the axes from base_idx on.
DrawHeatmap ==
    /\ pc = "render_heatmaps"
    /\ LET base_idx == IF Len(transcript_rows) > 1 THEN Len(transcript_rows) ELSE 1
           i == Len(axes_drawn) - base_idx
       IN  /\ i < NumHeatmaps
           /\ axes_drawn' = Append(axes_drawn,
                                   [ax |-> i + base_idx, what |-> "heatmap", item |-> i])
    /\ UNCHANGED <<pc, packVars, api_call, max_score, heatVars, multiVars, gffVars>>

\* api.py 168, 344: return fig.
RenderReturn ==
    /\ pc = "render_heatmaps"
    /\ LET base_idx == IF Len(transcript_rows) > 1 THEN Len(transcript_rows) ELSE 1
       IN  Len(axes_drawn) - base_idx = NumHeatmaps
    /\ pc' = "render_done"
    /\ UNCHANGED <<packVars, heatVars, multiVars, gffVars, renderVars>>

InitRender ==
    /\ pc = "render_call"
    /\ transcript_ranges \in SeqsUpTo(OrderedSpans, MaxTranscripts)
    /\ transcript_rows = <<>>
    /\ \/ api_call = "plot_region_with_footprints" /\ n_tissues = 1
       \/ api_call = "plot_multi_tissue_comparison" /\ n_tissues \in 0..MaxTissues
    /\ axes_drawn = <<>>
    /\ max_score = None
    /\ tissue_data = <<>>
    /\ all_max_scores = <<>>
    /\ global_max = None
    /\ drawn = <<>>
    /\ HeatIdle
    /\ GffIdle

NextRender ==
    \/ RenderLayout
    \/ DrawSingleAnnotation
    \/ DrawTranscriptRow
    \/ DrawHeatmap
    \/ RenderReturn

SpecRender == InitRender /\ [][NextRender]_vars

\* C16: when the packer returns k > 1 rows, row i is drawn by
\* draw_transcript_row on axis i for i = 0..k-1, in this order, every call
\* completes, and the heatmaps are drawn after them on the axes that
\* follow.
C16_RowsRenderedInOrder ==
    /\ pc # "render_raised"
    /\ (pc = "render_done" /\ Len(transcript_rows) > 1) =>
          /\ Len(axes_drawn) = Len(transcript_rows) + NumHeatmaps
          /\ \A i \in 1..Len(axes_drawn) :
                /\ axes_drawn[i].ax = i - 1
                /\ i <= Len(transcript_rows) =>
                      (axes_drawn[i].what = "transcript_row" /\ axes_drawn[i].item = i - 1)
                /\ i > Len(transcript_rows) =>
                      (axes_drawn[i].what = "heatmap"
                       /\ axes_drawn[i].item = i - 1 - Len(transcript_rows))

\* What holds of C16: with at most one row, the annotation is drawn on the
\* first axis and the heatmaps after it on the axes that follow.
C16_SingleRowRendered ==
    (pc = "render_done" /\ Len(transcript_rows) <= 1) =>
        /\ Len(axes_drawn) = 1 + NumHeatmaps
        /\ axes_drawn[1] = [ax |-> 0, what |-> "annotation", item |-> 0]
        /\ \A i \in 2..Len(axes_drawn) :
              axes_drawn[i] = [ax |-> i - 1, what |-> "heatmap", item |-> i - 2]

====
